---- MODULE Spec2Model ----
(***************************************************************************)
(* The depth-1 GTP front end of the Sensei Othello engine                  *)
(* (sensei-engine/gtp_depth1/sensei_depth1_gtp_main.cpp): the command      *)
(* loop, the game state it keeps and the replies it writes.                *)
(*                                                                         *)
(* Text (request lines, tokens, replies) is a sequence of one-character    *)
(* strings, so that tokenising, stoi, to_string and tolower are computed   *)
(* rather than assumed.  A BitPattern is the set of the squares whose bit  *)
(* is set.  board.h, get_moves.h, get_flip.h and pattern_evaluator.h are   *)
(* not part of the translated file; their operations are modelled from the *)
(* specification's description of them.                                    *)
(***************************************************************************)
EXTENDS Integers, Sequences, FiniteSets

VARIABLES st, evals, pc, line, out, genmoves

vars == <<st, evals, pc, line, out, genmoves>>

(***************************************************************************)
(* Bounds of the model.                                                    *)
(***************************************************************************)
\* Number of engine moves (genmove answered with a coordinate) explored.
MaxGenmoves == 1

(***************************************************************************)
(* Characters and strings.                                                 *)
(***************************************************************************)
INT_MAX == 2147483647

Digits == <<"0","1","2","3","4","5","6","7","8","9">>
LowerCase == <<"a","b","c","d","e","f","g","h","i","j","k","l","m",
               "n","o","p","q","r","s","t","u","v","w","x","y","z">>
UpperCase == <<"A","B","C","D","E","F","G","H","I","J","K","L","M",
               "N","O","P","Q","R","S","T","U","V","W","X","Y","Z">>

\* Position of character c in alphabet a, 0 when it is not in it.
IndexIn(a, c) ==
  IF \E i \in 1..Len(a) : a[i] = c
    THEN CHOOSE i \in 1..Len(a) : a[i] = c
    ELSE 0

isdigit(c) == IndexIn(Digits, c) > 0

tolower(c) == IF IndexIn(UpperCase, c) > 0 THEN LowerCase[IndexIn(UpperCase, c)] ELSE c

ToLowerStr(s) == [i \in 1..Len(s) |-> tolower(s[i])]

\* The separator set of the two find_first_not_of calls.
TrimSet == {" ", "\t", "\r", "\n"}

\* What operator>> skips as white space (isspace in the C locale).
isspace(c) == c \in {" ", "\t", "\r", "\n", "\f"}

\* s.substr(p), p counted from 0.
SubstrFrom(s, p) == SubSeq(s, p + 1, Len(s))

\* find_first_not_of(" \t\r\n"): the 0-based position, -1 for npos.
FindFirstNotOf(s) ==
  IF \E i \in 1..Len(s) : s[i] \notin TrimSet
    THEN (CHOOSE i \in 1..Len(s) :
            /\ s[i] \notin TrimSet
            /\ \A j \in 1..(i - 1) : s[j] \in TrimSet) - 1
    ELSE -1

\* Where operator>> starts a token: the first non-space position (1-based),
\* Len(s) + 1 when there is none.
TokenStart(s) ==
  IF \E i \in 1..Len(s) : ~isspace(s[i])
    THEN CHOOSE i \in 1..Len(s) :
            /\ ~isspace(s[i])
            /\ \A j \in 1..(i - 1) : isspace(s[j])
    ELSE Len(s) + 1

\* Where the token that starts at b ends: one past its last character.
TokenEnd(s, b) ==
  IF \E i \in b..Len(s) : isspace(s[i])
    THEN CHOOSE i \in b..Len(s) :
            /\ isspace(s[i])
            /\ \A j \in b..(i - 1) : ~isspace(s[j])
    ELSE Len(s) + 1

\* ss >> tok on a stream holding s: the token (empty at end of stream) and
\* what is left in the stream.
ReadToken(s) ==
  LET b == TokenStart(s)
      e == TokenEnd(s, b)
  IN  [tok |-> SubSeq(s, b, e - 1), rest |-> SubSeq(s, e, Len(s))]

RECURSIVE StoiFrom(_, _, _)
\* The value of the digits tok[i..], acc being the value of tok[1..i-1];
\* -1 when the value leaves the range of int (std::out_of_range).
StoiFrom(tok, i, acc) ==
  IF i > Len(tok) THEN acc
  ELSE LET d == IndexIn(Digits, tok[i]) - 1
       IN  IF acc > INT_MAX \div 10 \/ (acc = INT_MAX \div 10 /\ d > INT_MAX % 10)
             THEN -1
             ELSE StoiFrom(tok, i + 1, acc * 10 + d)

\* stoi on an all-digit token.
stoi(tok) == StoiFrom(tok, 1, 0)

StoiThrows(tok) == stoi(tok) = -1

RECURSIVE to_string(_)
to_string(n) ==
  IF n < 10 THEN <<Digits[n + 1]>>
  ELSE to_string(n \div 10) \o <<Digits[(n % 10) + 1]>>

(***************************************************************************)
(* Replies.                                                                *)
(***************************************************************************)
\* Ok with the id test off by one: id 0 is taken for no id.
OkPositiveIdOnly(id, payload) ==
  IF id > 0
    THEN IF payload = <<>>
           THEN <<"=", " ">> \o to_string(id) \o <<"\n", "\n">>
           ELSE <<"=", " ">> \o to_string(id) \o <<" ">> \o payload \o <<"\n", "\n">>
    ELSE IF payload = <<>>
           THEN <<"=", "\n", "\n">>
           ELSE <<"=", " ">> \o payload \o <<"\n", "\n">>

Ok(id, payload) ==
  IF id >= 0
    THEN IF payload = <<>>
           THEN <<"=", " ">> \o to_string(id) \o <<"\n", "\n">>
           ELSE <<"=", " ">> \o to_string(id) \o <<" ">> \o payload \o <<"\n", "\n">>
    ELSE IF payload = <<>>
           THEN <<"=", "\n", "\n">>
           ELSE <<"=", " ">> \o payload \o <<"\n", "\n">>

Err(id, payload) ==
  IF id >= 0
    THEN <<"?", " ">> \o to_string(id) \o <<" ">> \o payload \o <<"\n", "\n">>
    ELSE <<"?", " ">> \o payload \o <<"\n", "\n">>

kQuit == <<"q","u","i","t">>
kExit == <<"e","x","i","t">>
kClearBoard == <<"c","l","e","a","r","_","b","o","a","r","d">>
kPlay == <<"p","l","a","y">>
kGenmove == <<"g","e","n","m","o","v","e">>
kFinalScore == <<"f","i","n","a","l","_","s","c","o","r","e">>
kB == <<"b">>
kBlack == <<"b","l","a","c","k">>
kW == <<"w">>
kWhite == <<"w","h","i","t","e">>
kPassUpper == <<"P","A","S","S">>
kPassLower == <<"p","a","s","s">>
kIllegalColor == <<"i","l","l","e","g","a","l"," ","c","o","l","o","r">>
kIllegalMove == <<"i","l","l","e","g","a","l"," ","m","o","v","e">>
kWrongColor == <<"w","r","o","n","g"," ","c","o","l","o","r"," ","t","o"," ","p","l","a","y">>
kEvalsNotLoaded == <<"e","v","a","l","s"," ","n","o","t"," ","l","o","a","d","e","d">>
kGameNotOver == <<"g","a","m","e"," ","n","o","t"," ","o","v","e","r">>
kUnknownCommand == <<"u","n","k","n","o","w","n"," ","c","o","m","m","a","n","d">>
kBPlus == <<"B","+">>
kWPlus == <<"W","+">>
kDraw == <<"0">>

(***************************************************************************)
(* Colours and coordinates.                                                *)
(***************************************************************************)
Squares == 0..63

Files == <<"a","b","c","d","e","f","g","h">>
Ranks == <<"1","2","3","4","5","6","7","8">>

ParseColor(s) ==
  LET t == ToLowerStr(s)
  IN  IF t = kB \/ t = kBlack THEN [ok |-> TRUE, is_black |-> TRUE]
      ELSE IF t = kW \/ t = kWhite THEN [ok |-> TRUE, is_black |-> FALSE]
      ELSE [ok |-> FALSE, is_black |-> FALSE]

\* sq and is_pass start as the caller initialises them (0, false).
ParseCoord(s) ==
  IF s = kPassUpper \/ s = kPassLower
    THEN [ok |-> TRUE, sq |-> 0, is_pass |-> TRUE]
  ELSE IF Len(s) # 2
    THEN [ok |-> FALSE, sq |-> 0, is_pass |-> FALSE]
  ELSE LET x == IndexIn(Files, tolower(s[1])) - 1
           y == IndexIn(Ranks, s[2]) - 1
       IN  IF x < 0 \/ y < 0
             THEN [ok |-> FALSE, sq |-> 0, is_pass |-> FALSE]
             ELSE [ok |-> TRUE, sq |-> y * 8 + x, is_pass |-> FALSE]

SqToCoord(sq) == <<Files[(sq % 8) + 1], Ranks[(sq \div 8) + 1]>>

(***************************************************************************)
(* The board (board.h, get_moves.h, get_flip.h).  player is the side to    *)
(* move, opponent the other one.                                           *)
(***************************************************************************)
Dirs == {d \in (-1..1) \X (-1..1) : d # <<0, 0>>}

OnBoard(x, y) == x \in 0..7 /\ y \in 0..7

RECURSIVE Walk(_, _, _, _, _, _)
\* From (x, y) on in direction d: the run of opponent discs gone through
\* (acc) when a player disc ends it, nothing when an empty square or the
\* edge does.
Walk(x, y, d, player, opponent, acc) ==
  IF ~OnBoard(x, y) THEN {}
  ELSE LET q == y * 8 + x
       IN  IF q \in opponent
             THEN Walk(x + d[1], y + d[2], d, player, opponent, acc \cup {q})
           ELSE IF q \in player THEN acc
           ELSE {}

\* The opponent discs bracketed between s and a player disc in direction d.
Bracketed(s, d, player, opponent) ==
  Walk((s % 8) + d[1], (s \div 8) + d[2], d, player, opponent, {})

Captured(s, player, opponent) ==
  UNION {Bracketed(s, d, player, opponent) : d \in Dirs}

\* Board(): the standard start, black (d5, e4) to move against white (d4, e5).
StartBoard == [player |-> {28, 35}, opponent |-> {27, 36}]

RECURSIVE Landing(_, _, _, _, _, _)
\* From (x, y) on in direction d, n opponent discs gone through so far: the
\* empty square that ends a run of at least one opponent disc, if any.
Landing(x, y, d, player, opponent, n) ==
  IF ~OnBoard(x, y) THEN {}
  ELSE LET q == y * 8 + x
       IN  IF q \in opponent
             THEN Landing(x + d[1], y + d[2], d, player, opponent, n + 1)
           ELSE IF q \in player \/ n = 0 THEN {}
           ELSE {q}

\* The empty squares that bracket at least one opponent disc with a player
\* disc: found from the player's discs outwards.
GetMoves(player, opponent) ==
  UNION {Landing((p % 8) + d[1], (p \div 8) + d[2], d, player, opponent, 0) :
           p \in player, d \in Dirs}

\* The captured discs together with the square played; empty when nothing
\* is captured.
GetFlip(mv, player, opponent) ==
  IF mv \notin Squares \ (player \cup opponent) THEN {}
  ELSE LET c == Captured(mv, player, opponent)
       IN  IF c = {} THEN {} ELSE c \cup {mv}

NewPlayer(flip, opponent) == opponent \ flip

NewOpponent(flip, player) == player \cup flip

\* PlayMove that leaves the captured discs with their former owner too.
PlayMoveKeepsCaptured(board, flip) ==
  [player |-> board.opponent,
   opponent |-> NewOpponent(flip, board.player)]

\* Board::PlayMove: the move is made and the perspective swapped.
PlayMove(board, flip) ==
  [player |-> NewPlayer(flip, board.opponent),
   opponent |-> NewOpponent(flip, board.player)]

IsGameOver(board) ==
  /\ GetMoves(board.player, board.opponent) = {}
  /\ GetMoves(board.opponent, board.player) = {}

(***************************************************************************)
(* The evaluator (pattern_evaluator.h).  The table is a vector; the empty  *)
(* vector is a table that failed to load.                                  *)
(***************************************************************************)
\* A loaded table: one weight per square.
LoadedEvals == [i \in 1..64 |-> 1]

RECURSIVE WeightOf(_, _)
WeightOf(table, discs) ==
  IF discs = {} THEN 0
  ELSE LET s == CHOOSE x \in discs : TRUE
       IN  table[s + 1] + WeightOf(table, discs \ {s})

\* PatternEvaluator::Setup + Evaluate: the score of the position for its mover.
Evaluate(table, player, opponent) ==
  WeightOf(table, player) - WeightOf(table, opponent)

(***************************************************************************)
(* GameState.                                                              *)
(***************************************************************************)
Reset == [board |-> StartBoard, stm_is_black |-> TRUE]

\* ApplyPass without the toggle of the flag.
ApplyPassNoToggle(s) ==
  [board |-> PlayMove(s.board, {}), stm_is_black |-> s.stm_is_black]

\* ApplyPass without the PlayMove(0) that swaps the masks.
ApplyPassNoSwap(s) ==
  [board |-> s.board, stm_is_black |-> ~s.stm_is_black]

ApplyPass(s) ==
  [board |-> PlayMove(s.board, {}), stm_is_black |-> ~s.stm_is_black]

\* What ApplyMove returns.
ApplyMoveOk(s, mv) == mv \in GetMoves(s.board.player, s.board.opponent)

\* ApplyMove without the early return on an illegal square.
ApplyMoveUnchecked(s, mv) ==
  [board |-> PlayMove(s.board, GetFlip(mv, s.board.player, s.board.opponent)),
   stm_is_black |-> ~s.stm_is_black]

\* ApplyMove without the toggle of the flag.
ApplyMoveNoToggle(s, mv) ==
  IF ~ApplyMoveOk(s, mv) THEN s
  ELSE [board |-> PlayMove(s.board, GetFlip(mv, s.board.player, s.board.opponent)),
        stm_is_black |-> s.stm_is_black]

\* The state ApplyMove leaves.
ApplyMove(s, mv) ==
  IF ~ApplyMoveOk(s, mv) THEN s
  ELSE [board |-> PlayMove(s.board, GetFlip(mv, s.board.player, s.board.opponent)),
        stm_is_black |-> ~s.stm_is_black]

IsOver(s) == IsGameOver(s.board)

\* CountDiscsAbs that takes the mover for black whatever the flag says.
CountDiscsMoverIsBlack(s) ==
  <<Cardinality(s.board.player), Cardinality(s.board.opponent)>>

\* <<black discs, white discs>>
CountDiscsAbs(s) ==
  LET black == IF s.stm_is_black THEN s.board.player ELSE s.board.opponent
      white == IF s.stm_is_black THEN s.board.opponent ELSE s.board.player
  IN  <<Cardinality(black), Cardinality(white)>>

(***************************************************************************)
(* One request line, as the loop takes it apart (lines 113-142).           *)
(***************************************************************************)
AllDigits(tok) == tok # <<>> /\ \A i \in 1..Len(tok) : isdigit(tok[i])

\* line with its leading separators removed; left as it is when it holds
\* nothing else.
TrimLeading(s) ==
  LET p == FindFirstNotOf(s)
  IN  IF p # -1 THEN SubstrFrom(s, p) ELSE s

\* The text after the id token, trimmed; cleared when nothing is left.
AfterId(rest) ==
  LET p == FindFirstNotOf(rest)
  IN  IF p # -1 THEN SubstrFrom(rest, p) ELSE <<>>

\* throws: stoi leaves the loop with std::out_of_range; id: -1 when the line
\* has none; cmd: the verb in lower case; args: the stream after the verb.
ParseLine(l) ==
  LET cmdline0 == TrimLeading(l)
      first == ReadToken(cmdline0)
      has_id == AllDigits(first.tok)
      cmdline == IF has_id THEN AfterId(first.rest) ELSE cmdline0
      verb == ReadToken(cmdline)
  IN  [line |-> l,
       throws |-> has_id /\ StoiThrows(first.tok),
       id |-> IF has_id THEN stoi(first.tok) ELSE -1,
       cmd |-> ToLowerStr(verb.tok),
       args |-> verb.rest]

(***************************************************************************)
(* The handlers: the state and the reply each leaves.                      *)
(***************************************************************************)
\* The play handler without the test of the colour against the side to move.
PlayHandlerNoTurnCheck(s, id, args) ==
  LET a1 == ReadToken(args)
      a2 == ReadToken(a1.rest)
      color == ParseColor(a1.tok)
      coord == ParseCoord(a2.tok)
  IN  IF ~color.ok THEN [st |-> s, reply |-> Err(id, kIllegalColor)]
      ELSE IF ~coord.ok THEN [st |-> s, reply |-> Err(id, kIllegalMove)]
      ELSE IF coord.is_pass THEN [st |-> ApplyPass(s), reply |-> Ok(id, <<>>)]
      ELSE IF ~ApplyMoveOk(s, coord.sq)
        THEN [st |-> ApplyMove(s, coord.sq), reply |-> Err(id, kIllegalMove)]
      ELSE [st |-> ApplyMove(s, coord.sq), reply |-> Ok(id, <<>>)]

\* The play handler with the legality of the move tested before the colour
\* is tested against the side to move.
PlayHandlerLegalityFirst(s, id, args) ==
  LET a1 == ReadToken(args)
      a2 == ReadToken(a1.rest)
      color == ParseColor(a1.tok)
      coord == ParseCoord(a2.tok)
  IN  IF ~color.ok THEN [st |-> s, reply |-> Err(id, kIllegalColor)]
      ELSE IF ~coord.ok THEN [st |-> s, reply |-> Err(id, kIllegalMove)]
      ELSE IF ~coord.is_pass /\ ~ApplyMoveOk(s, coord.sq)
        THEN [st |-> s, reply |-> Err(id, kIllegalMove)]
      ELSE IF color.is_black # s.stm_is_black
        THEN [st |-> s, reply |-> Err(id, kWrongColor)]
      ELSE IF coord.is_pass THEN [st |-> ApplyPass(s), reply |-> Ok(id, <<>>)]
      ELSE [st |-> ApplyMove(s, coord.sq), reply |-> Ok(id, <<>>)]

\* The play handler with a pass accepted only when the side to move has no
\* legal move.
PlayHandlerPassNeedsNoMoves(s, id, args) ==
  LET a1 == ReadToken(args)
      a2 == ReadToken(a1.rest)
      color == ParseColor(a1.tok)
      coord == ParseCoord(a2.tok)
  IN  IF ~color.ok THEN [st |-> s, reply |-> Err(id, kIllegalColor)]
      ELSE IF ~coord.ok THEN [st |-> s, reply |-> Err(id, kIllegalMove)]
      ELSE IF color.is_black # s.stm_is_black
        THEN [st |-> s, reply |-> Err(id, kWrongColor)]
      ELSE IF coord.is_pass /\ GetMoves(s.board.player, s.board.opponent) = {}
        THEN [st |-> ApplyPass(s), reply |-> Ok(id, <<>>)]
      ELSE IF coord.is_pass \/ ~ApplyMoveOk(s, coord.sq)
        THEN [st |-> s, reply |-> Err(id, kIllegalMove)]
      ELSE [st |-> ApplyMove(s, coord.sq), reply |-> Ok(id, <<>>)]

PlayHandler(s, id, args) ==
  LET a1 == ReadToken(args)
      a2 == ReadToken(a1.rest)
      color == ParseColor(a1.tok)
      coord == ParseCoord(a2.tok)
  IN  IF ~color.ok THEN [st |-> s, reply |-> Err(id, kIllegalColor)]
      ELSE IF ~coord.ok THEN [st |-> s, reply |-> Err(id, kIllegalMove)]
      ELSE IF color.is_black # s.stm_is_black
        THEN [st |-> s, reply |-> Err(id, kWrongColor)]
      ELSE IF coord.is_pass THEN [st |-> ApplyPass(s), reply |-> Ok(id, <<>>)]
      ELSE IF ~ApplyMoveOk(s, coord.sq)
        THEN [st |-> ApplyMove(s, coord.sq), reply |-> Err(id, kIllegalMove)]
      ELSE [st |-> ApplyMove(s, coord.sq), reply |-> Ok(id, <<>>)]

kNoMove == -1
kMinScore == -1000000000

\* The lowest set bit of a non-empty mask.
LowestBit(rem) == CHOOSE m \in rem : \A n \in rem : m <= n

RECURSIVE SelectMoveLastBest(_, _, _, _, _)
\* The selection loop with a score equal to the best one replacing it.
SelectMoveLastBest(rem, s, table, best_move, best_score) ==
  IF rem = {} THEN best_move
  ELSE LET mv == LowestBit(rem)
           flip == GetFlip(mv, s.board.player, s.board.opponent)
           next_player == NewPlayer(flip, s.board.opponent)
           next_opp == NewOpponent(flip, s.board.player)
           score == -Evaluate(table, next_player, next_opp)
       IN  IF score >= best_score
             THEN SelectMoveLastBest(rem \ {mv}, s, table, mv, score)
             ELSE SelectMoveLastBest(rem \ {mv}, s, table, best_move, best_score)

RECURSIVE SelectMove(_, _, _, _, _)
\* The selection loop of genmove (lines 186-201): best_move when rem is used up.
SelectMove(rem, s, table, best_move, best_score) ==
  IF rem = {} THEN best_move
  ELSE LET mv == LowestBit(rem)
           flip == GetFlip(mv, s.board.player, s.board.opponent)
           next_player == NewPlayer(flip, s.board.opponent)
           next_opp == NewOpponent(flip, s.board.player)
           score == -Evaluate(table, next_player, next_opp)
       IN  IF score > best_score
             THEN SelectMove(rem \ {mv}, s, table, mv, score)
             ELSE SelectMove(rem \ {mv}, s, table, best_move, best_score)

\* genmove gets as far as choosing a move.
GenmoveSelects(s, table, args) ==
  LET color == ParseColor(ReadToken(args).tok)
  IN  /\ color.ok
      /\ table # <<>>
      /\ color.is_black = s.stm_is_black
      /\ GetMoves(s.board.player, s.board.opponent) # {}

\* The genmove handler with the selection loop run over the opponent's mask
\* instead of the legal moves.
GenmoveHandlerWrongMask(s, table, id, args) ==
  LET color == ParseColor(ReadToken(args).tok)
      moves == GetMoves(s.board.player, s.board.opponent)
  IN  IF ~color.ok THEN [st |-> s, reply |-> Err(id, kIllegalColor)]
      ELSE IF table = <<>> THEN [st |-> s, reply |-> Err(id, kEvalsNotLoaded)]
      ELSE IF color.is_black # s.stm_is_black
        THEN [st |-> s, reply |-> Err(id, kWrongColor)]
      ELSE IF moves = {} THEN [st |-> ApplyPass(s), reply |-> Ok(id, kPassUpper)]
      ELSE LET best_move == SelectMove(s.board.opponent, s, table, kNoMove, kMinScore)
           IN  [st |-> ApplyMove(s, best_move),
                reply |-> Ok(id, SqToCoord(best_move))]

\* The genmove handler with the table tested after the side to move.
GenmoveHandlerTurnFirst(s, table, id, args) ==
  LET color == ParseColor(ReadToken(args).tok)
      moves == GetMoves(s.board.player, s.board.opponent)
  IN  IF ~color.ok THEN [st |-> s, reply |-> Err(id, kIllegalColor)]
      ELSE IF color.is_black # s.stm_is_black
        THEN [st |-> s, reply |-> Err(id, kWrongColor)]
      ELSE IF table = <<>> THEN [st |-> s, reply |-> Err(id, kEvalsNotLoaded)]
      ELSE IF moves = {} THEN [st |-> ApplyPass(s), reply |-> Ok(id, kPassUpper)]
      ELSE LET best_move == SelectMove(moves, s, table, kNoMove, kMinScore)
           IN  [st |-> ApplyMove(s, best_move),
                reply |-> Ok(id, SqToCoord(best_move))]

\* The genmove handler answering PASS without the call of ApplyPass.
GenmoveHandlerPassKeepsState(s, table, id, args) ==
  LET color == ParseColor(ReadToken(args).tok)
      moves == GetMoves(s.board.player, s.board.opponent)
  IN  IF ~color.ok THEN [st |-> s, reply |-> Err(id, kIllegalColor)]
      ELSE IF table = <<>> THEN [st |-> s, reply |-> Err(id, kEvalsNotLoaded)]
      ELSE IF color.is_black # s.stm_is_black
        THEN [st |-> s, reply |-> Err(id, kWrongColor)]
      ELSE IF moves = {} THEN [st |-> s, reply |-> Ok(id, kPassUpper)]
      ELSE LET best_move == SelectMove(moves, s, table, kNoMove, kMinScore)
           IN  [st |-> ApplyMove(s, best_move),
                reply |-> Ok(id, SqToCoord(best_move))]

GenmoveHandler(s, table, id, args) ==
  LET color == ParseColor(ReadToken(args).tok)
      moves == GetMoves(s.board.player, s.board.opponent)
  IN  IF ~color.ok THEN [st |-> s, reply |-> Err(id, kIllegalColor)]
      ELSE IF table = <<>> THEN [st |-> s, reply |-> Err(id, kEvalsNotLoaded)]
      ELSE IF color.is_black # s.stm_is_black
        THEN [st |-> s, reply |-> Err(id, kWrongColor)]
      ELSE IF moves = {} THEN [st |-> ApplyPass(s), reply |-> Ok(id, kPassUpper)]
      ELSE LET best_move == SelectMove(moves, s, table, kNoMove, kMinScore)
           IN  [st |-> ApplyMove(s, best_move),
                reply |-> Ok(id, SqToCoord(best_move))]

FinalScoreHandler(s, id) ==
  IF ~IsOver(s) THEN [st |-> s, reply |-> Err(id, kGameNotOver)]
  ELSE LET diff == CountDiscsAbs(s)[1] - CountDiscsAbs(s)[2]
           r == IF diff > 0 THEN kBPlus \o to_string(diff)
                ELSE IF diff < 0 THEN kWPlus \o to_string(-diff)
                ELSE kDraw
       IN  [st |-> s, reply |-> Ok(id, r)]

KnownVerbs == {kQuit, kExit, kClearBoard, kPlay, kGenmove, kFinalScore}

(***************************************************************************)
(* The request lines the controller sends.                                 *)
(***************************************************************************)
W(a, b) == a \o <<" ">> \o b

\* The squares of the shortest game (d3 c3 b3 d2 e1 d6 d7 e3 f4, black takes
\* every disc) and a pass.
CoordTokens ==
  {<<"d","3">>, <<"c","3">>, <<"b","3">>, <<"d","2">>, <<"e","1">>,
   <<"d","6">>, <<"d","7">>, <<"e","3">>, <<"f","4">>, kPassLower}

PlayLines == {W(W(kPlay, c), t) : c \in {kB, kW}, t \in CoordTokens}

BlankLines == {<<>>, <<" ", " ">>, <<"\t">>, <<"7">>, <<" ", "7", " ">>}

QuitLines == {kQuit, <<"E","x","i","t">>, W(<<"3">>, kQuit)}

ClearLines ==
  {kClearBoard, <<" ", "\t">> \o kClearBoard \o <<"\r">>, W(<<"0">>, kClearBoard)}

OddPlayLines ==
  {W(W(kPlay, <<"B","l","a","c","k">>), <<"D","3">>),
   W(W(kPlay, <<"W">>), <<"c","3">>),
   W(W(kPlay, kB), kPassUpper),
   W(W(kPlay, kW), <<"P","a","s","s">>),
   W(W(kPlay, <<"x">>), <<"d","3">>),
   W(W(kPlay, kB), <<"z","9">>),
   W(W(kPlay, <<"x">>), <<"z","9">>),
   W(W(kPlay, kW), <<"d","3","3">>),
   W(kPlay, kB),
   W(<<"0","0","7">>, W(W(kPlay, kB), <<"d","3">>)),
   W(<<"9","9","9","9","9","9","9","9","9","9","9">>, W(W(kPlay, kB), <<"d","3">>))}

GenmoveLines ==
  {W(kGenmove, kB), W(kGenmove, kW), W(kGenmove, <<"q">>), kGenmove,
   W(<<"1","2">>, W(kGenmove, kB))}

ScoreLines ==
  {kFinalScore, W(<<"5">>, kFinalScore),
   W(<<"2","1","4","7","4","8","3","6","4","8">>, kFinalScore)}

UnknownLines ==
  {<<"f","o","o">>, W(<<"8">>, <<"f","o","o">>), W(<<"-","1">>, kQuit),
   W(<<"2","1","4","7","4","8","3","6","4","7">>, <<"f","o","o">>)}

Lines ==
  PlayLines \cup BlankLines \cup QuitLines \cup ClearLines \cup OddPlayLines
    \cup GenmoveLines \cup ScoreLines \cup UnknownLines

\* The lines of Lines as the loop takes them apart.
Requests == {ParseLine(l) : l \in Lines}

(***************************************************************************)
(* The command loop (lines 106-220).  pc: "read" at the loop's getline,    *)
(* "next" when an iteration has ended and control returns to the getline,  *)
(* "exit" after the loop, "abort" when an exception left main.             *)
(***************************************************************************)
Init ==
  /\ st = Reset
  /\ evals \in {<<>>, LoadedEvals}
  /\ pc = "read"
  /\ line = <<>>
  /\ out = <<>>
  /\ genmoves = 0

\* BlankLine as it would be if a line without a verb fell through to the
\* unknown-command reply.
BlankLineReplies ==
  /\ pc = "read"
  /\ \E r \in Requests :
       /\ r.line = <<>> \/ (~r.throws /\ r.cmd = <<>>)
       /\ line' = r.line
       /\ out' = IF r.line = <<>> THEN <<>> ELSE <<Err(r.id, kUnknownCommand)>>
  /\ pc' = "next"
  /\ UNCHANGED <<st, evals, genmoves>>

\* An empty line (line 111) or a line without a verb (line 141): no reply.
BlankLine ==
  /\ pc = "read"
  /\ \E r \in Requests :
       /\ r.line = <<>> \/ (~r.throws /\ r.cmd = <<>>)
       /\ line' = r.line
  /\ out' = <<>>
  /\ pc' = "next"
  /\ UNCHANGED <<st, evals, genmoves>>

\* stoi throws on an id beyond int (line 128); nothing catches it.
IdOutOfRange ==
  /\ pc = "read"
  /\ \E r \in Requests :
       /\ r.line # <<>>
       /\ r.throws
       /\ line' = r.line
  /\ out' = <<>>
  /\ pc' = "abort"
  /\ UNCHANGED <<st, evals, genmoves>>

\* A line whose verb is read and is one of verbs.
Dispatched(r, verbs) ==
  /\ r.line # <<>>
  /\ ~r.throws
  /\ r.cmd \in verbs

\* Quit as it would be if the handler went on to the next line.
QuitContinues ==
  /\ pc = "read"
  /\ \E r \in Requests :
       /\ Dispatched(r, {kQuit, kExit})
       /\ line' = r.line
       /\ out' = <<Ok(r.id, <<>>)>>
  /\ pc' = "next"
  /\ UNCHANGED <<st, evals, genmoves>>

Quit ==
  /\ pc = "read"
  /\ \E r \in Requests :
       /\ Dispatched(r, {kQuit, kExit})
       /\ line' = r.line
       /\ out' = <<Ok(r.id, <<>>)>>
  /\ pc' = "exit"
  /\ UNCHANGED <<st, evals, genmoves>>

\* ClearBoard as it would be without the call of Reset.
ClearBoardKeepsState ==
  /\ pc = "read"
  /\ \E r \in Requests :
       /\ Dispatched(r, {kClearBoard})
       /\ line' = r.line
       /\ out' = <<Ok(r.id, <<>>)>>
  /\ pc' = "next"
  /\ UNCHANGED <<st, evals, genmoves>>

ClearBoard ==
  /\ pc = "read"
  /\ \E r \in Requests :
       /\ Dispatched(r, {kClearBoard})
       /\ line' = r.line
       /\ out' = <<Ok(r.id, <<>>)>>
  /\ st' = Reset
  /\ pc' = "next"
  /\ UNCHANGED <<evals, genmoves>>

Play ==
  /\ pc = "read"
  /\ \E r \in Requests :
       /\ Dispatched(r, {kPlay})
       /\ LET h == PlayHandler(st, r.id, r.args)
          IN  /\ st' = h.st
              /\ out' = <<h.reply>>
       /\ line' = r.line
  /\ pc' = "next"
  /\ UNCHANGED <<evals, genmoves>>

Genmove ==
  /\ pc = "read"
  /\ \E r \in Requests :
       /\ Dispatched(r, {kGenmove})
       /\ LET selects == GenmoveSelects(st, evals, r.args)
              h == GenmoveHandler(st, evals, r.id, r.args)
          IN  /\ selects => genmoves < MaxGenmoves
              /\ st' = h.st
              /\ out' = <<h.reply>>
              /\ genmoves' = IF selects THEN genmoves + 1 ELSE genmoves
       /\ line' = r.line
  /\ pc' = "next"
  /\ UNCHANGED evals

FinalScore ==
  /\ pc = "read"
  /\ \E r \in Requests :
       /\ Dispatched(r, {kFinalScore})
       /\ LET h == FinalScoreHandler(st, r.id)
          IN  /\ st' = h.st
              /\ out' = <<h.reply>>
       /\ line' = r.line
  /\ pc' = "next"
  /\ UNCHANGED <<evals, genmoves>>

UnknownCommand ==
  /\ pc = "read"
  /\ \E r \in Requests :
       /\ r.line # <<>>
       /\ ~r.throws
       /\ r.cmd \notin KnownVerbs \cup {<<>>}
       /\ line' = r.line
       /\ out' = <<Err(r.id, kUnknownCommand)>>
  /\ pc' = "next"
  /\ UNCHANGED <<st, evals, genmoves>>

\* continue: back to the getline; the iteration's line is done with.
Continue ==
  /\ pc = "next"
  /\ pc' = "read"
  /\ line' = <<>>
  /\ out' = <<>>
  /\ UNCHANGED <<st, evals, genmoves>>

\* getline fails at the end of the input: main returns.
EndOfInput ==
  /\ pc = "read"
  /\ pc' = "exit"
  /\ UNCHANGED <<st, evals, line, out, genmoves>>

Next ==
  \/ BlankLine
  \/ IdOutOfRange
  \/ Quit
  \/ ClearBoard
  \/ Play
  \/ Genmove
  \/ FinalScore
  \/ UnknownCommand
  \/ Continue
  \/ EndOfInput

Spec == Init /\ [][Next]_vars

TypeOK ==
  /\ pc \in {"read", "next", "exit", "abort"}
  /\ st.board.player \subseteq Squares
  /\ st.board.opponent \subseteq Squares
  /\ st.stm_is_black \in BOOLEAN
  /\ Len(out) <= 1
  /\ genmoves \in 0..MaxGenmoves

(***************************************************************************)
(* Vocabulary of the properties.                                           *)
(***************************************************************************)
\* The request line l as the loop took it apart.
Req(l) == CHOOSE r \in Requests : r.line = l

\* The colour and the coordinate argument of request line l.
ColorArg(l) == ParseColor(ReadToken(Req(l).args).tok)
CoordArg(l) == ParseCoord(ReadToken(ReadToken(Req(l).args).rest).tok)

\* This step handles request line' with a handler of one of verbs.
Handles(verbs) ==
  /\ pc = "read"
  /\ pc' = "next"
  /\ Req(line').cmd \in verbs

\* The replies written for the current request.
IsError(o) == Len(o) = 1 /\ o[1][1] = "?"
IsSuccess(o) == Len(o) = 1 /\ o[1][1] = "="

\* The discs of the absolute colours.
BlackDiscs(s) == IF s.stm_is_black THEN s.board.player ELSE s.board.opponent
WhiteDiscs(s) == IF s.stm_is_black THEN s.board.opponent ELSE s.board.player

HasMoves(s) == GetMoves(s.board.player, s.board.opponent) # {}

(***************************************************************************)
(* C1: turn enforcement of play.                                           *)
(***************************************************************************)
\* C1: when the colour of a dispatched play request (with a well-formed
\* coordinate, square or pass) is not the side to move, the reply is the
\* error "wrong color to play" and the game state is unchanged.
C1_WrongColorRejected ==
  [][(/\ Handles({kPlay})
      /\ ColorArg(line').ok
      /\ CoordArg(line').ok
      /\ ColorArg(line').is_black # st.stm_is_black)
     => (/\ out' = <<Err(Req(line').id, kWrongColor)>>
         /\ st' = st)]_vars

\* White is to move and a play for black has just been rejected.
C1_Witness ==
  /\ pc = "next"
  /\ line = W(W(kPlay, kB), <<"d","6">>)
  /\ ~st.stm_is_black
  /\ st.board # StartBoard
  /\ out = <<Err(-1, kWrongColor)>>

(***************************************************************************)
(* C2: an error reply means no change of the game state.                   *)
(***************************************************************************)
\* C2: every step that answers a request with an error reply leaves both
\* board masks and the side-to-move flag as they were.
C2_ErrorLeavesState ==
  [][(pc = "read" /\ IsError(out')) => st' = st]_vars

\* An illegal move on a board that is not the start position was rejected.
C2_Witness ==
  /\ pc = "next"
  /\ out = <<Err(-1, kIllegalMove)>>
  /\ Req(line).cmd = kPlay
  /\ ColorArg(line).ok /\ CoordArg(line).ok
  /\ ColorArg(line).is_black = st.stm_is_black
  /\ st.board # StartBoard

(***************************************************************************)
(* C3: the side-to-move flag.                                              *)
(***************************************************************************)
\* C3: the flag flips on every play or genmove answered with success, and
\* stays on every request answered with an error, on final_score and on an
\* unknown command.
C3_ToggleOncePerAccepted ==
  [][/\ (Handles({kPlay, kGenmove}) /\ IsSuccess(out'))
          => st'.stm_is_black = ~st.stm_is_black
     /\ (pc = "read" /\ IsError(out')) => st'.stm_is_black = st.stm_is_black
     /\ (Handles({kFinalScore}) \/ (pc = "read" /\ Req(line').cmd \notin KnownVerbs))
          => st'.stm_is_black = st.stm_is_black]_vars

\* An engine move was made for black: white is to move.
C3_Witness ==
  /\ pc = "next"
  /\ Req(line).cmd = kGenmove
  /\ IsSuccess(out)
  /\ ColorArg(line).is_black
  /\ ~st.stm_is_black

(***************************************************************************)
(* C4: the two masks are disjoint.                                         *)
(***************************************************************************)
\* C4: in every reachable state no square is in both the mover mask and the
\* other mask.
C4_MasksDisjoint == st.board.player \cap st.board.opponent = {}

\* A position after captures by both sides.
C4_Witness ==
  /\ Cardinality(st.board.player \cup st.board.opponent) >= 8
  /\ genmoves = 1
  /\ st.board.player # {}

(***************************************************************************)
(* C5: genmove with a legal move.                                          *)
(***************************************************************************)
\* C5: with the table loaded, the colour the side to move and a legal move
\* available, genmove answers success with the coordinate of a square of the
\* legal-move set of the position before the command, that move is what is
\* applied, and the other colour is to move afterwards.
C5_GenmovePlaysLegalMove ==
  [][(/\ Handles({kGenmove})
      /\ evals # <<>>
      /\ ColorArg(line').ok
      /\ ColorArg(line').is_black = st.stm_is_black
      /\ HasMoves(st))
     => \E sq \in GetMoves(st.board.player, st.board.opponent) :
          /\ out' = <<Ok(Req(line').id, SqToCoord(sq))>>
          /\ st'.board = PlayMove(st.board, GetFlip(sq, st.board.player, st.board.opponent))
          /\ st'.stm_is_black = ~st.stm_is_black]_vars

\* An engine move for white, in the middle of a game, with the id echoed.
C5_Witness ==
  /\ pc = "next"
  /\ line = W(kGenmove, kW)
  /\ IsSuccess(out)
  /\ out # <<Ok(-1, kPassUpper)>>
  /\ st.stm_is_black
  /\ Cardinality(st.board.player \cup st.board.opponent) >= 7

(***************************************************************************)
(* C6: genmove without a legal move.                                       *)
(***************************************************************************)
\* C6: with the table loaded, the colour the side to move and no legal move,
\* genmove answers success with payload PASS, toggles the side to move and
\* leaves the black discs and the white discs as they were.
C6_GenmovePasses ==
  [][(/\ Handles({kGenmove})
      /\ evals # <<>>
      /\ ColorArg(line').ok
      /\ ColorArg(line').is_black = st.stm_is_black
      /\ ~HasMoves(st))
     => (/\ out' = <<Ok(Req(line').id, kPassUpper)>>
         /\ st'.stm_is_black = ~st.stm_is_black
         /\ BlackDiscs(st') = BlackDiscs(st)
         /\ WhiteDiscs(st') = WhiteDiscs(st))]_vars

\* genmove has just passed for a side that had no move while its opponent,
\* now to move, has one.
C6_Witness ==
  /\ pc = "next"
  /\ Req(line).cmd = kGenmove
  /\ out = <<Ok(Req(line).id, kPassUpper)>>
  /\ HasMoves(st)
  /\ GetMoves(st.board.opponent, st.board.player) = {}

(***************************************************************************)
(* C7: final_score.                                                        *)
(***************************************************************************)
\* The payload the disc counts of the absolute colours call for.
ScoreText(nb, nw) ==
  IF nb > nw THEN kBPlus \o to_string(nb - nw)
  ELSE IF nw > nb THEN kWPlus \o to_string(nw - nb)
  ELSE kDraw

\* C7: final_score answers "game not over" exactly when one of the sides has
\* a legal move, and otherwise success with B+n, W+n or 0 from the numbers of
\* black and of white discs; it never changes the state.
C7_FinalScore ==
  [][Handles({kFinalScore})
     => LET some_move == \/ GetMoves(st.board.player, st.board.opponent) # {}
                         \/ GetMoves(st.board.opponent, st.board.player) # {}
            nb == Cardinality(BlackDiscs(st))
            nw == Cardinality(WhiteDiscs(st))
        IN  /\ st' = st
            /\ some_move <=> out' = <<Err(Req(line').id, kGameNotOver)>>
            /\ ~some_move => out' = <<Ok(Req(line').id, ScoreText(nb, nw))>>]_vars

\* A finished game scored with white to move.
C7_Witness ==
  /\ pc = "next"
  /\ Req(line).cmd = kFinalScore
  /\ IsSuccess(out)
  /\ ~st.stm_is_black
  /\ Cardinality(BlackDiscs(st)) # Cardinality(WhiteDiscs(st))

\* A finished game scored with black to move.
C7_WitnessBlackToMove ==
  /\ pc = "next"
  /\ Req(line).cmd = kFinalScore
  /\ IsSuccess(out)
  /\ st.stm_is_black

\* A game white has won.
C7_WitnessWhiteWins ==
  /\ pc = "next"
  /\ Req(line).cmd = kFinalScore
  /\ IsSuccess(out)
  /\ Cardinality(BlackDiscs(st)) < Cardinality(WhiteDiscs(st))

(***************************************************************************)
(* C8: genmove without an evaluator table.                                 *)
(***************************************************************************)
\* C8 as stated: with no table loaded, every genmove request is answered with
\* the error "evals not loaded" and the state is unchanged.
C8_EveryGenmoveNotLoaded ==
  [][(Handles({kGenmove}) /\ evals = <<>>)
     => (/\ out' = <<Err(Req(line').id, kEvalsNotLoaded)>>
         /\ st' = st)]_vars

\* C8, amended: with no table loaded, every genmove request whose colour
\* argument is a valid colour is answered with the error "evals not loaded",
\* whatever the board and the side to move, and the state is unchanged; the
\* table never changes after startup.
C8_GenmoveNotLoaded ==
  [][/\ evals' = evals
     /\ (Handles({kGenmove}) /\ evals = <<>> /\ ColorArg(line').ok)
          => (/\ out' = <<Err(Req(line').id, kEvalsNotLoaded)>>
              /\ st' = st)]_vars

\* Without a table, a genmove for the side that is not to move, in the
\* middle of a game, was answered "evals not loaded".
C8_Witness ==
  /\ pc = "next"
  /\ evals = <<>>
  /\ line = W(<<"1","2">>, W(kGenmove, kB))
  /\ ~st.stm_is_black
  /\ st.board # StartBoard
  /\ out = <<Err(12, kEvalsNotLoaded)>>

(***************************************************************************)
(* C9: one reply for each request.                                         *)
(***************************************************************************)
\* The line holds a verb: a token, after the id token if it starts with one.
HasVerb(l) ==
  LET first == ReadToken(l)
  IN  IF AllDigits(first.tok) THEN ReadToken(first.rest).tok # <<>>
      ELSE first.tok # <<>>

\* C9: once a line has been taken from the input, exactly one reply has been
\* written for it if it holds a verb and none if it is blank.
C9_OneReplyPerRequest ==
  pc # "read" => Len(out) = (IF HasVerb(line) THEN 1 ELSE 0)

(***************************************************************************)
(* C10: the request id.                                                    *)
(***************************************************************************)
RECURSIVE StripZeros(_)
\* The decimal digits of the number that the digits t write.
StripZeros(t) == IF Len(t) > 1 /\ t[1] = "0" THEN StripZeros(Tail(t)) ELSE t

\* The reply has the digits ds right after its marker.
CarriesId(reply, ds) ==
  /\ Len(reply) >= Len(ds) + 3
  /\ reply[1] \in {"=", "?"}
  /\ reply[2] = " "
  /\ SubSeq(reply, 3, Len(ds) + 2) = ds
  /\ reply[Len(ds) + 3] \in {" ", "\n"}

\* The reply has no number after its marker (the score of a drawn game, the
\* payload 0, is no id).
CarriesNoId(reply, verb) ==
  /\ reply[1] \in {"=", "?"}
  /\ \/ reply[2] = "\n"
     \/ reply[2] = " " /\ ~AllDigits(ReadToken(Tail(reply)).tok)
     \/ verb = kFinalScore /\ reply = <<"=", " ", "0", "\n", "\n">>

\* The reply o echoes the id of request line l, or has none when l has none.
EchoesId(l, o) ==
  IF AllDigits(ReadToken(l).tok)
    THEN CarriesId(o, StripZeros(ReadToken(l).tok))
    ELSE CarriesNoId(o, Req(l).cmd)

\* C10: a request with a verb gets a reply, which carries the number of the
\* all-digit first token of the request as its id, right after the marker,
\* and carries no id when the first token of the request is not all digits.
C10_EveryIdEchoed ==
  (pc # "read" /\ HasVerb(line)) => (Len(out) = 1 /\ EchoesId(line, out[1]))

\* What holds of the id: every reply that is written echoes it.
C10_IdEchoed ==
  (pc # "read" /\ Len(out) = 1) => EchoesId(line, out[1])

\* The request 007 play b d3 was answered with id 7.
C10_Witness ==
  /\ pc = "next"
  /\ line = W(<<"0","0","7">>, W(W(kPlay, kB), <<"d","3">>))
  /\ out = <<<<"=", " ", "7", "\n", "\n">>>>

\* The request 0 clear_board was answered with id 0.
C10_WitnessZero ==
  /\ pc = "next"
  /\ line = W(<<"0">>, kClearBoard)
  /\ out = <<<<"=", " ", "0", "\n", "\n">>>>


(***************************************************************************)
(* C11: no request line stops the process.                                 *)
(***************************************************************************)
\* C11: no request line, whatever its request id (arbitrarily long digit
\* strings included), makes the process fail: the loop never ends other
\* than by quit, exit or the end of the input.
C11_NeverAborts == pc # "abort"

\* The only way out of the loop after a request line is quit or exit.
C11_ExitOnlyByQuit ==
  pc = "exit" => (line = <<>> \/ Req(line).cmd \in {kQuit, kExit})


(***************************************************************************)
(* C12: quit and exit.                                                     *)
(***************************************************************************)
\* C12: a request whose verb is quit or exit (in any letter case) is
\* answered with a success reply of empty payload that carries the
\* request's id, leaves the game state as it was and ends the loop; once
\* the loop has ended nothing changes any more, so no later line is read.
C12_QuitTerminates ==
  [][/\ (/\ pc = "read"
         /\ pc' \in {"next", "exit"}
         /\ Req(line').cmd \in {kQuit, kExit})
        => (/\ out' = <<Ok(Req(line').id, <<>>)>>
            /\ pc' = "exit"
            /\ st' = st)
     /\ pc # "exit"]_vars

\* The loop has ended on "3 quit" in the middle of a game.
C12_Witness ==
  /\ pc = "exit"
  /\ line = W(<<"3">>, kQuit)
  /\ out = <<Ok(3, <<>>)>>
  /\ st.board # StartBoard
  /\ ~st.stm_is_black


(***************************************************************************)
(* C13: clear_board.                                                       *)
(***************************************************************************)
\* C13: from every state a clear_board request is answered with a success
\* reply of empty payload, and afterwards the board is the standard start
\* position (black on e4 and d5, white on d4 and e5) with black to move;
\* from the start position it changes nothing, so twice is as once.
C13_ClearBoardResets ==
  [][Handles({kClearBoard})
     => (/\ out' = <<Ok(Req(line').id, <<>>)>>
         /\ st'.stm_is_black
         /\ st'.board.player = {28, 35}
         /\ st'.board.opponent = {27, 36}
         /\ (st = Reset => st' = st))]_vars

\* A game with an engine move in it was cleared while white was to move.
C13_Witness ==
  /\ pc = "next"
  /\ line = W(<<"0">>, kClearBoard)
  /\ out = <<Ok(0, <<>>)>>
  /\ genmoves = 1
  /\ st = Reset

\* clear_board was repeated on the start position.
C13_WitnessTwice ==
  /\ pc = "next"
  /\ line = kClearBoard
  /\ genmoves = 0
  /\ st = Reset


(***************************************************************************)
(* C14: the letter case of the pass token.                                 *)
(***************************************************************************)
\* The coordinate token of request line l.
CoordToken(l) == ReadToken(ReadToken(Req(l).args).rest).tok

\* C14: a play request for the side to move whose coordinate token is
\* "pass" in any letter case is answered with success and applies a pass.
C14_PassAnyCase ==
  [][(/\ Handles({kPlay})
      /\ ColorArg(line').ok
      /\ ColorArg(line').is_black = st.stm_is_black
      /\ ToLowerStr(CoordToken(line')) = kPassLower)
     => (/\ out' = <<Ok(Req(line').id, <<>>)>>
         /\ st' = ApplyPass(st))]_vars


(***************************************************************************)
(* C15: requests without a verb and with an unknown verb.                  *)
(***************************************************************************)
\* This step ends the iteration of a line' that holds a token (an id or a
\* verb) and whose verb is none of the six known ones.
NoKnownVerb ==
  /\ pc = "read"
  /\ pc' = "next"
  /\ ReadToken(line').tok # <<>>
  /\ Req(line').cmd \notin KnownVerbs

\* C15 as stated: a request whose verb is empty (a line with only a request
\* id) and a request whose verb is unknown each get an error reply and leave
\* the state unchanged.
C15_EmptyAndUnknownGetError ==
  [][NoKnownVerb => (IsError(out') /\ st' = st)]_vars

\* C15: a request whose verb is unknown is answered with the error "unknown
\* command" carrying its id, a line that holds only a request id gets no
\* reply at all, and both leave the state unchanged.
C15_UnknownErrorEmptySilent ==
  [][NoKnownVerb
     => (/\ out' = IF Req(line').cmd = <<>>
                     THEN <<>>
                     ELSE <<Err(Req(line').id, kUnknownCommand)>>
         /\ st' = st)]_vars

\* The line "7" has been skipped without a reply in the middle of a game.
C15_Witness ==
  /\ pc = "next"
  /\ line = <<"7">>
  /\ out = <<>>
  /\ st.board # StartBoard

\* The unknown verb of "8 foo" has been answered in the middle of a game.
C15_WitnessUnknown ==
  /\ pc = "next"
  /\ line = <<"8", " ", "f", "o", "o">>
  /\ out = <<Err(8, kUnknownCommand)>>
  /\ st.board # StartBoard


(***************************************************************************)
(* C16: the order of the checks of play.                                   *)
(***************************************************************************)
\* The reply the checks of play call for, in the order colour token,
\* coordinate token, side to move, legality of the move.
PlayReplyInOrder(s, l) ==
  LET color == ColorArg(l)
      coord == CoordArg(l)
      id == Req(l).id
  IN  IF ~color.ok THEN Err(id, kIllegalColor)
      ELSE IF ~coord.ok THEN Err(id, kIllegalMove)
      ELSE IF color.is_black # s.stm_is_black THEN Err(id, kWrongColor)
      ELSE IF /\ ~coord.is_pass
              /\ coord.sq \notin GetMoves(s.board.player, s.board.opponent)
        THEN Err(id, kIllegalMove)
      ELSE Ok(id, <<>>)

\* C16: the single reply of a play request is decided by the first failing
\* check in the order: invalid colour token ("illegal color"), invalid
\* coordinate token ("illegal move"), colour that is not the side to move
\* ("wrong color to play"), square not in the legal-move set ("illegal
\* move"); with no failing check the reply is success.  So an illegal square
\* or a pass sent for the wrong colour is answered "wrong color to play".
C16_PlayCheckOrder ==
  [][Handles({kPlay}) => out' = <<PlayReplyInOrder(st, line')>>]_vars

\* "play w d7" with black to move, d7 legal for neither side: the colour
\* decided the reply.
C16_Witness ==
  /\ pc = "next"
  /\ line = W(W(kPlay, kW), <<"d","7">>)
  /\ st.stm_is_black
  /\ 51 \notin GetMoves(st.board.player, st.board.opponent)
  /\ 51 \notin GetMoves(st.board.opponent, st.board.player)
  /\ out = <<Err(-1, kWrongColor)>>

\* Both tokens of "play x z9" are invalid: the colour decided the reply.
C16_WitnessBothTokens ==
  /\ pc = "next"
  /\ line = W(W(kPlay, <<"x">>), <<"z","9">>)
  /\ out = <<Err(-1, kIllegalColor)>>

\* "play b z9" with white to move: the coordinate decided the reply.
C16_WitnessCoordBeforeTurn ==
  /\ pc = "next"
  /\ line = W(W(kPlay, kB), <<"z","9">>)
  /\ ~st.stm_is_black
  /\ out = <<Err(-1, kIllegalMove)>>


(***************************************************************************)
(* C17: the move genmove chooses.                                          *)
(***************************************************************************)
\* The negated score, for its mover, of the position that move mv of the
\* mover of s leads to.
ScoreOfMove(s, table, mv) ==
  LET flip == GetFlip(mv, s.board.player, s.board.opponent)
  IN  -Evaluate(table, NewPlayer(flip, s.board.opponent),
                NewOpponent(flip, s.board.player))

\* genmove is handled in this step and gets as far as choosing a move.
GenmoveChooses ==
  /\ Handles({kGenmove})
  /\ evals # <<>>
  /\ ColorArg(line').ok
  /\ ColorArg(line').is_black = st.stm_is_black
  /\ HasMoves(st)

\* C17: the square genmove answers with is a legal move whose negated
\* evaluator score of the position it leads to (taken as new mover, new
\* other) is the greatest over all legal moves, and it is the lowest square
\* index among the legal moves of that score.
C17_GenmoveMaximizes ==
  [][GenmoveChooses
     => \E sq \in GetMoves(st.board.player, st.board.opponent) :
          /\ out' = <<Ok(Req(line').id, SqToCoord(sq))>>
          /\ \A m \in GetMoves(st.board.player, st.board.opponent) :
               /\ ScoreOfMove(st, evals, m) <= ScoreOfMove(st, evals, sq)
               /\ (ScoreOfMove(st, evals, m) = ScoreOfMove(st, evals, sq)
                     => sq <= m)]_vars


\* The position after d3 e3, black to move: f2 is the lowest legal square and
\* flips one disc, f3 and f5 flip two.
C17_Before ==
  [board |-> [player |-> {19, 27, 35}, opponent |-> {20, 28, 36}],
   stm_is_black |-> TRUE]

\* genmove has answered f3 there: not the lowest legal square, and the lower
\* of the two squares of the greatest score.
C17_Witness ==
  /\ pc = "next"
  /\ line = W(kGenmove, kB)
  /\ out = <<Ok(-1, <<"f","3">>)>>
  /\ st = ApplyMove(C17_Before, 21)
  /\ {13, 21, 37} \subseteq GetMoves(C17_Before.board.player,
                                     C17_Before.board.opponent)
  /\ ScoreOfMove(C17_Before, evals, 13) < ScoreOfMove(C17_Before, evals, 21)
  /\ ScoreOfMove(C17_Before, evals, 37) = ScoreOfMove(C17_Before, evals, 21)


(***************************************************************************)
(* C18: the effect of an accepted move.                                    *)
(***************************************************************************)
\* This step accepts a move on square sq: a play of a square answered with
\* success, or a genmove answered with the coordinate of sq.
MoveAccepted(sq) ==
  \/ /\ Handles({kPlay})
     /\ IsSuccess(out')
     /\ CoordArg(line').sq = sq
     /\ CoordArg(line').ok
     /\ ~CoordArg(line').is_pass
  \/ /\ Handles({kGenmove})
     /\ out' = <<Ok(Req(line').id, SqToCoord(sq))>>

\* The discs of the colour that is to move in s, and of the other colour,
\* as they are in state t.
DiscsOfMover(s, t) == IF s.stm_is_black THEN BlackDiscs(t) ELSE WhiteDiscs(t)
DiscsOfOther(s, t) == IF s.stm_is_black THEN WhiteDiscs(t) ELSE BlackDiscs(t)

\* C18: after an accepted move of colour c on square sq, by play or by
\* genmove, in absolute colours: sq was empty and is now c's, the discs the
\* move brackets were the opponent's and are now c's, every other square is
\* as it was, the opponent of c is to move, and the mover mask holds the
\* opponent's discs and the other mask c's.
C18_MoveEffect ==
  [][(Handles({kPlay, kGenmove}) /\ IsSuccess(out'))
     => \A sq \in Squares :
       MoveAccepted(sq)
       => LET flipped == Captured(sq, st.board.player, st.board.opponent)
          IN  /\ sq \notin BlackDiscs(st) \cup WhiteDiscs(st)
              /\ flipped # {}
              /\ flipped \subseteq DiscsOfOther(st, st)
              /\ DiscsOfMover(st, st') = DiscsOfMover(st, st) \cup flipped \cup {sq}
              /\ DiscsOfOther(st, st') = DiscsOfOther(st, st) \ flipped
              /\ st'.stm_is_black = ~st.stm_is_black
              /\ st'.board.player = DiscsOfOther(st, st')
              /\ st'.board.opponent = DiscsOfMover(st, st')]_vars

\* White has played c3 after d3: c3 and the bracketed d4 are white's, black's
\* d3, d5 and e4 are as they were, and black is to move.
C18_Witness ==
  /\ pc = "next"
  /\ line = W(W(kPlay, kW), <<"c","3">>)
  /\ IsSuccess(out)
  /\ st.stm_is_black
  /\ WhiteDiscs(st) = {18, 27, 36}
  /\ BlackDiscs(st) = {19, 28, 35}

\* The engine has moved for white in a game with earlier moves in it.
C18_WitnessGenmove ==
  /\ pc = "next"
  /\ line = W(kGenmove, kW)
  /\ IsSuccess(out)
  /\ out # <<Ok(-1, kPassUpper)>>
  /\ st.stm_is_black
  /\ Cardinality(st.board.player \cup st.board.opponent) >= 7


(***************************************************************************)
(* C19: play of a pass.                                                    *)
(***************************************************************************)
\* C19: a play of a pass ("pass" or "PASS") for the side to move is answered
\* with success whatever the position, with legal moves available or with
\* the game over; it toggles the side to move, swaps the two masks, and
\* leaves the set of black discs and the set of white discs as they were.
C19_PassUnconditional ==
  [][(/\ Handles({kPlay})
      /\ ColorArg(line').ok
      /\ ColorArg(line').is_black = st.stm_is_black
      /\ CoordArg(line').ok
      /\ CoordArg(line').is_pass)
     => (/\ out' = <<Ok(Req(line').id, <<>>)>>
         /\ st'.stm_is_black = ~st.stm_is_black
         /\ st'.board.player = st.board.opponent
         /\ st'.board.opponent = st.board.player
         /\ BlackDiscs(st') = BlackDiscs(st)
         /\ WhiteDiscs(st') = WhiteDiscs(st))]_vars

\* Black has passed by "play b pass" although black had legal moves.
C19_Witness ==
  /\ pc = "next"
  /\ line = W(W(kPlay, kB), kPassLower)
  /\ out = <<Ok(-1, <<>>)>>
  /\ ~st.stm_is_black
  /\ st.board # StartBoard
  /\ GetMoves(st.board.opponent, st.board.player) # {}

\* White has passed by "play w pass" in a game that is over.
C19_WitnessGameOver ==
  /\ pc = "next"
  /\ line = W(W(kPlay, kW), kPassLower)
  /\ out = <<Ok(-1, <<>>)>>
  /\ st.stm_is_black
  /\ IsOver(st)


(***************************************************************************)
(* C20: a finished game stays finished until clear_board.                  *)
(***************************************************************************)
\* The state s with the side to move toggled and the masks swapped.
Toggled(s) ==
  [board |-> [player |-> s.board.opponent, opponent |-> s.board.player],
   stm_is_black |-> ~s.stm_is_black]

\* C20: from a state where neither side has a legal move, every step other
\* than the handling of clear_board leaves the game over and the black and
\* the white discs as they were; a play of a square is rejected and changes
\* nothing; a play or genmove answered with success is a pass (genmove
\* answers PASS) that only toggles the side to move and swaps the masks; and
\* final_score answers success with the score of those same discs, so the
\* same payload each time.
C20_OverIsAbsorbing ==
  [][(IsOver(st) /\ ~Handles({kClearBoard}))
     => (/\ IsOver(st')
         /\ BlackDiscs(st') = BlackDiscs(st)
         /\ WhiteDiscs(st') = WhiteDiscs(st)
         /\ (Handles({kPlay}) /\ CoordArg(line').ok /\ ~CoordArg(line').is_pass)
              => (IsError(out') /\ st' = st)
         /\ (Handles({kPlay, kGenmove}) /\ IsSuccess(out'))
              => st' = Toggled(st)
         /\ (Handles({kGenmove}) /\ IsSuccess(out'))
              => out' = <<Ok(Req(line').id, kPassUpper)>>
         /\ Handles({kFinalScore})
              => out' = <<Ok(Req(line').id,
                             ScoreText(Cardinality(BlackDiscs(st)),
                                       Cardinality(WhiteDiscs(st))))>>)]_vars

\* In a finished game genmove has answered PASS for black.
C20_Witness ==
  /\ pc = "next"
  /\ IsOver(st)
  /\ line = W(kGenmove, kB)
  /\ out = <<Ok(-1, kPassUpper)>>
  /\ ~st.stm_is_black

\* In a finished game a play of a square for the side to move was rejected.
C20_WitnessPlayRejected ==
  /\ pc = "next"
  /\ IsOver(st)
  /\ Req(line).cmd = kPlay
  /\ ColorArg(line).ok /\ ColorArg(line).is_black = st.stm_is_black
  /\ CoordArg(line).ok /\ ~CoordArg(line).is_pass
  /\ out = <<Err(-1, kIllegalMove)>>

\* In a finished game final_score was answered with white to move.
C20_WitnessScoreAfterPass ==
  /\ pc = "next"
  /\ IsOver(st)
  /\ ~st.stm_is_black
  /\ line = kFinalScore
  /\ IsSuccess(out)

====
